---- MODULE Spec2Model ----
(***************************************************************************)
(* A model of sea-query's InsertStatement builder (src/src/query/insert.rs) *)
(* and of the MySQL rendering of a foreign-key drop exercised by            *)
(* src/tests/mysql/foreign_key.rs.                                          *)
(*                                                                          *)
(* Strings are sequences of one-character strings, so that sorting,         *)
(* quoting and escaping work on characters.  SQL text is a sequence of      *)
(* pieces: keyword literals and single characters.                          *)
(***************************************************************************)
EXTENDS Integers, Sequences, FiniteSets, TLC

\* ------------------------------------------------------------------ bounds

\* The most rows a statement of the model holds.
MaxRows == 2

\* The longest row, column list and JSON object (in entries) passed to a call.
MaxLen == 2

\* The longest identifier handed to the foreign-key drop statement.
MaxNameLen == 2

\* ------------------------------------------------------------- data model

SeqsUpTo(S, n) == UNION {[1..k -> S] : k \in 0..n}

\* Option<T>
None == [some |-> FALSE, v |-> <<>>]
Some(x) == [some |-> TRUE, v |-> x]

\* Identifier names (Iden::to_string): the table and the column names.
TableName == <<"g">>
Idens == {<<"a">>, <<"a", "b">>, <<"b">>}

\* sea_query::Value
Null == [tag |-> "Null", n |-> 0]
BigInt(n) == [tag |-> "BigInt", n |-> n]
SeaValues == {Null, BigInt(1)}

\* serde_json::Value.  A scalar carries its payload in n; an object carries
\* its entries, in the order its map iterates them.
JNull == [kind |-> "Null", n |-> 0, entries |-> <<>>]
JBool(b) == [kind |-> "Bool", n |-> b, entries |-> <<>>]
JNumber(n) == [kind |-> "Number", n |-> n, entries |-> <<>>]
JString(n) == [kind |-> "String", n |-> n, entries |-> <<>>]
JArray == [kind |-> "Array", n |-> 0, entries |-> <<>>]
JObject(entries) == [kind |-> "Object", n |-> 0, entries |-> entries]

JsonScalars == {JNull, JNumber(1)}
NonObjects == {JNull, JBool(1), JNumber(1), JString(1), JArray}

Entry(k, v) == [key |-> k, value |-> v]
DistinctKeys(es) == \A i, j \in 1..Len(es) : es[i].key = es[j].key => i = j
Objects ==
    {JObject(es) : es \in {e \in SeqsUpTo({Entry(k, v) : k \in Idens, v \in JsonScalars}, MaxLen) :
                             DistinctKeys(e)}}

Rows == SeqsUpTo(SeaValues, MaxLen)
ColumnLists == SeqsUpTo(Idens, MaxLen)

\* ------------------------------------------------- strings and their order

\* The double-quote and the backtick characters, written by name.
DQ == "dq"
BT == "bt"

\* The byte of a character: Rust orders String by bytes.
Code(c) ==
    CASE c = DQ -> 34
      [] c = BT -> 96
      [] c = "a" -> 97
      [] c = "b" -> 98
      [] c = "g" -> 103
      [] c = "k" -> 107
      [] c = "t" -> 116
      [] OTHER -> 0

\* s < t for strings (Ord for String: lexicographic by bytes).
RECURSIVE StrLess(_, _)
StrLess(s, t) ==
    IF t = <<>> THEN FALSE
    ELSE IF s = <<>> THEN TRUE
    ELSE IF Code(Head(s)) # Code(Head(t)) THEN Code(Head(s)) < Code(Head(t))
    ELSE StrLess(Tail(s), Tail(t))

RECURSIVE SortInsert(_, _)
SortInsert(k, sorted) ==
    IF sorted = <<>> THEN <<k>>
    ELSE IF StrLess(k, Head(sorted)) THEN <<k>> \o sorted
    ELSE <<Head(sorted)>> \o SortInsert(k, Tail(sorted))

\* keys.sort(): read as the ascending rearrangement of keys.
RECURSIVE Sort(_)
Sort(keys) ==
    IF keys = <<>> THEN <<>> ELSE SortInsert(Head(keys), Sort(Tail(keys)))

\* ------------------------------------------------------------ JSON helpers

\* map.keys().cloned().collect(): the keys in the map's iteration order.
Keys(object) == [i \in 1..Len(object.entries) |-> object.entries[i].key]

\* object.get(key): Some(value) of the entry with that key, else None.
Get(object, key) ==
    IF \E i \in 1..Len(object.entries) : object.entries[i].key = key
    THEN Some(object.entries[CHOOSE i \in 1..Len(object.entries) :
                                 object.entries[i].key = key].value)
    ELSE None

\* json_value_to_sea_value: null to Null, a number keeps its integer, a
\* string to a string value, objects and arrays to the Json variant.
json_value_to_sea_value(v) ==
    CASE v.kind = "Null" -> Null
      [] v.kind = "Bool" -> [tag |-> "Bool", n |-> v.n]
      [] v.kind = "Number" -> BigInt(v.n)
      [] v.kind = "String" -> [tag |-> "String", n |-> v.n]
      [] OTHER -> [tag |-> "Json", n |-> v.n]

\* -------------------------------------------------------- InsertStatement

\* InsertStatement::new
new == [table |-> None, columns |-> <<>>, values |-> <<>>]

\* InsertStatement::into_table / into_table_dyn
into_table_dyn(s, table) == [s EXCEPT !.table = Some(table)]

\* InsertStatement::columns / columns_dyn
columns_dyn(s, columns) == [s EXCEPT !.columns = columns]

\* A plausible slip: the row is put in front of the rows instead of pushed.
values_prepend(s, row) ==
    IF Len(s.columns) # Len(row)
    THEN [ok |-> FALSE, stmt |-> s]
    ELSE [ok |-> TRUE, stmt |-> [s EXCEPT !.values = <<row>> \o @]]

\* A plausible slip: the row is pushed without the length check.
values_unchecked(s, row) ==
    [ok |-> TRUE, stmt |-> [s EXCEPT !.values = Append(@, row)]]

\* InsertStatement::values: Err leaves the statement as it was.
values(s, row) ==
    IF Len(s.columns) # Len(row)
    THEN [ok |-> FALSE, stmt |-> s]
    ELSE [ok |-> TRUE, stmt |-> [s EXCEPT !.values = Append(@, row)]]

\* A plausible slip: the error is dropped instead of unwrapped.
values_panic_swallow(s, row) ==
    [panic |-> FALSE, stmt |-> values(s, row).stmt]

\* InsertStatement::values_panic: self.values(values).unwrap()
values_panic(s, row) ==
    LET r == values(s, row) IN [panic |-> ~r.ok, stmt |-> r.stmt]

\* A plausible slip: the keys are pushed in the map's iteration order.
derive_columns_unsorted(s, object) ==
    IF s.columns = <<>> THEN Keys(object) ELSE s.columns

\* json, lines 198-205: the column list after the derivation step.
derive_columns(s, object) ==
    IF s.columns = <<>> THEN Sort(Keys(object)) ELSE s.columns

\* A plausible slip: the row is built from the object's entries in order.
json_row_by_entries(columns, object) ==
    [i \in 1..Len(object.entries) |-> json_value_to_sea_value(object.entries[i].value)]

\* json, lines 206-213: one value per column, looked up by the column's name.
json_row(columns, object) ==
    [i \in 1..Len(columns) |->
        LET got == Get(object, columns[i])
        IN  IF got.some THEN json_value_to_sea_value(got.v) ELSE Null]

\* A plausible slip: a value that is no object is taken as an empty object.
json_coerce(s, object) ==
    LET o == IF object.kind = "Object" THEN object ELSE JObject(<<>>)
        cols == derive_columns(s, o)
    IN  [panic |-> FALSE,
         stmt |-> [s EXCEPT !.columns = cols,
                            !.values = Append(@, json_row(cols, o))]]

\* InsertStatement::json
json(s, object) ==
    IF object.kind # "Object"
    THEN [panic |-> TRUE, stmt |-> s]
    ELSE LET cols == derive_columns(s, object)
         IN  [panic |-> FALSE,
              stmt |-> [s EXCEPT !.columns = cols,
                                 !.values = Append(@, json_row(cols, object))]]

\* ------------------------------------------------------ dialect backends

Dialects == {"Mysql", "Postgres", "Sqlite"}

\* The identifier quote of a dialect: a backtick, or a double quote.
quote_char(dialect) == IF dialect = "Postgres" THEN DQ ELSE BT

\* An embedded quote character is escaped by doubling it.
RECURSIVE escape(_, _)
escape(name, q) ==
    IF name = <<>> THEN <<>>
    ELSE (IF Head(name) = q THEN <<q, q>> ELSE <<Head(name)>>) \o escape(Tail(name), q)

\* A plausible slip: every dialect quotes with the double quote.
prepare_iden_double_quote(name, dialect) ==
    <<DQ>> \o escape(name, DQ) \o <<DQ>>

\* An identifier wrapped in the dialect's quote character.
prepare_iden(name, dialect) ==
    LET q == quote_char(dialect) IN <<q>> \o escape(name, q) \o <<q>>

\* The n-th placeholder of a render pass: ? or $n.
placeholder(dialect, n) ==
    IF dialect = "Postgres" THEN <<"$", ToString(n)>> ELSE <<"?">>

\* The writer of one render pass: the text so far and the values handed to
\* the collector so far, in order.
NewWriter == [sql |-> <<>>, calls |-> <<>>]
write(w, pieces) == [w EXCEPT !.sql = @ \o pieces]

\* A literal value: the collector gets the value, the text a placeholder.
prepare_value(w, value, dialect) ==
    [sql |-> w.sql \o placeholder(dialect, Len(w.calls) + 1),
     calls |-> Append(w.calls, value)]

RECURSIVE prepare_columns(_, _, _, _)
prepare_columns(w, columns, dialect, first) ==
    IF columns = <<>> THEN w
    ELSE prepare_columns(
             write(IF first THEN w ELSE write(w, <<", ">>),
                   prepare_iden(Head(columns), dialect)),
             Tail(columns), dialect, FALSE)

RECURSIVE prepare_row(_, _, _, _)
prepare_row(w, row, dialect, first) ==
    IF row = <<>> THEN w
    ELSE prepare_row(
             prepare_value(IF first THEN w ELSE write(w, <<", ">>), Head(row), dialect),
             Tail(row), dialect, FALSE)

RECURSIVE prepare_rows(_, _, _, _)
prepare_rows(w, rows, dialect, first) ==
    IF rows = <<>> THEN w
    ELSE prepare_rows(
             write(prepare_row(write(IF first THEN w ELSE write(w, <<", ">>), <<"(">>),
                               Head(rows), dialect, TRUE),
                   <<")">>),
             Tail(rows), dialect, FALSE)

\* QueryBuilder::prepare_insert_statement:
\* INSERT INTO <table> (<columns>) VALUES (<row>), (<row>) ...
prepare_insert_statement(s, dialect) ==
    LET w1 == write(NewWriter, <<"INSERT INTO ">>)
        w2 == IF s.table.some THEN write(w1, prepare_iden(s.table.v, dialect)) ELSE w1
        w3 == write(prepare_columns(write(w2, <<" ", "(">>), s.columns, dialect, TRUE), <<")">>)
    IN  prepare_rows(write(w3, <<" VALUES ">>), s.values, dialect, TRUE)

\* InsertStatement::build_collect: the text, and what the collector was
\* called with, call by call.
build_collect(s, dialect) == prepare_insert_statement(s, dialect)

\* InsertStatement::build_collect_any: the same, for a &dyn QueryBuilder.
build_collect_any(s, dialect) == prepare_insert_statement(s, dialect)

\* A plausible slip: each value is put in front of the parameters.
RECURSIVE collect_push_front(_, _)
collect_push_front(params, calls) ==
    IF calls = <<>> THEN params
    ELSE collect_push_front(<<Head(calls)>> \o params, Tail(calls))

\* The collector of build: |v| params.push(v), over the collector's calls.
RECURSIVE collect_push(_, _)
collect_push(params, calls) ==
    IF calls = <<>> THEN params
    ELSE collect_push(Append(params, Head(calls)), Tail(calls))

\* InsertStatement::build
build(s, dialect) ==
    LET r == build_collect(s, dialect)
    IN  [sql |-> r.sql, params |-> collect_push(<<>>, r.calls)]

\* InsertStatement::build_any
build_any(s, dialect) ==
    LET r == build_collect_any(s, dialect)
    IN  [sql |-> r.sql, params |-> collect_push(<<>>, r.calls)]

\* -------------------------------------------- ForeignKeyDropStatement

\* ForeignKey::drop()
fk_drop == [name |-> None, table |-> None]

\* ForeignKeyDropStatement::name
fk_name(fk, name) == [fk EXCEPT !.name = Some(name)]

\* ForeignKeyDropStatement::table
fk_table(fk, table) == [fk EXCEPT !.table = Some(table)]

\* ForeignKeyDropStatement::to_string(MysqlQueryBuilder)
fk_drop_to_string(fk, dialect) ==
    <<"ALTER TABLE ">>
        \o (IF fk.table.some THEN prepare_iden(fk.table.v, dialect) ELSE <<>>)
        \o <<" DROP FOREIGN KEY ">>
        \o (IF fk.name.some THEN prepare_iden(fk.name.v, dialect) ELSE <<>>)

\* The characters and the names given to the foreign-key drop statement.
FkChars == {"t", "k", BT}
FkNames == SeqsUpTo(FkChars, MaxNameLen) \ {<<>>}

\* ------------------------------------------------------------------ state

VARIABLES
    stmt,   \* the InsertStatement: table, columns, values
    call,   \* the last call made on it: its name and its arguments
    ret,    \* what that call returned: ok, err or panic; build's text and parameters
    hist,   \* what has been called so far
    fk      \* the ForeignKeyDropStatement

vars == <<stmt, call, ret, hist, fk>>

NoObject == JNull
Call(op, row, object, columns, dialect) ==
    [op |-> op, row |-> row, object |-> object, columns |-> columns, dialect |-> dialect]
Ret(status) == [status |-> status, sql |-> <<>>, params |-> <<>>]

Init ==
    /\ stmt = new
    /\ call = Call("new", <<>>, NoObject, <<>>, "")
    /\ ret = Ret("ok")
    /\ hist = [columns_called |-> FALSE, json_called |-> FALSE, appends |-> 0]
    /\ fk = fk_drop

\* A panic ends the chain of calls.
Running == ret.status # "panic"

IntoTable ==
    /\ Running
    /\ stmt' = into_table_dyn(stmt, TableName)
    /\ call' = Call("into_table", <<>>, NoObject, <<>>, "")
    /\ ret' = Ret("ok")
    /\ UNCHANGED <<hist, fk>>

Columns ==
    /\ Running
    /\ \E columns \in ColumnLists :
        /\ stmt' = columns_dyn(stmt, columns)
        /\ call' = Call("columns", <<>>, NoObject, columns, "")
    /\ ret' = Ret("ok")
    /\ hist' = [hist EXCEPT !.columns_called = TRUE]
    /\ fk' = fk

Values ==
    /\ Running
    /\ Len(stmt.values) < MaxRows
    /\ \E row \in Rows :
        LET r == values(stmt, row)
        IN  /\ stmt' = r.stmt
            /\ call' = Call("values", row, NoObject, <<>>, "")
            /\ ret' = Ret(IF r.ok THEN "ok" ELSE "err")
            /\ hist' = [hist EXCEPT !.appends = IF r.ok THEN @ + 1 ELSE @]
    /\ fk' = fk

ValuesPanic ==
    /\ Running
    /\ Len(stmt.values) < MaxRows
    /\ \E row \in Rows :
        LET r == values_panic(stmt, row)
        IN  /\ stmt' = r.stmt
            /\ call' = Call("values_panic", row, NoObject, <<>>, "")
            /\ ret' = Ret(IF r.panic THEN "panic" ELSE "ok")
            /\ hist' = [hist EXCEPT !.appends = IF r.panic THEN @ ELSE @ + 1]
    /\ fk' = fk

Json ==
    /\ Running
    /\ Len(stmt.values) < MaxRows
    /\ \E object \in Objects \cup NonObjects :
        LET r == json(stmt, object)
        IN  /\ stmt' = r.stmt
            /\ call' = Call("json", <<>>, object, <<>>, "")
            /\ ret' = Ret(IF r.panic THEN "panic" ELSE "ok")
            /\ hist' = [hist EXCEPT !.appends = IF r.panic THEN @ ELSE @ + 1,
                                    !.json_called = IF r.panic THEN @ ELSE TRUE]
    /\ fk' = fk

Build ==
    /\ Running
    /\ \E dialect \in Dialects :
        LET r == build(stmt, dialect)
        IN  /\ call' = Call("build", <<>>, NoObject, <<>>, dialect)
            /\ ret' = [status |-> "ok", sql |-> r.sql, params |-> r.params]
    /\ UNCHANGED <<stmt, hist, fk>>

\* build_collect with a collector of the caller that records what it is
\* given: ret.params is what the collector received, in order.
BuildCollect ==
    /\ Running
    /\ \E dialect \in Dialects :
        LET r == build_collect(stmt, dialect)
        IN  /\ call' = Call("build_collect", <<>>, NoObject, <<>>, dialect)
            /\ ret' = [status |-> "ok", sql |-> r.sql, params |-> r.calls]
    /\ UNCHANGED <<stmt, hist, fk>>

BuildAny ==
    /\ Running
    /\ \E dialect \in Dialects :
        LET r == build_any(stmt, dialect)
        IN  /\ call' = Call("build_any", <<>>, NoObject, <<>>, dialect)
            /\ ret' = [status |-> "ok", sql |-> r.sql, params |-> r.params]
    /\ UNCHANGED <<stmt, hist, fk>>

BuildCollectAny ==
    /\ Running
    /\ \E dialect \in Dialects :
        LET r == build_collect_any(stmt, dialect)
        IN  /\ call' = Call("build_collect_any", <<>>, NoObject, <<>>, dialect)
            /\ ret' = [status |-> "ok", sql |-> r.sql, params |-> r.calls]
    /\ UNCHANGED <<stmt, hist, fk>>

Next ==
    \/ IntoTable \/ Columns \/ Values \/ ValuesPanic \/ Json
    \/ Build \/ BuildCollect \/ BuildAny \/ BuildCollectAny

Spec == Init /\ [][Next]_vars

\* The foreign-key drop: the statement is built from a name and a table, and
\* rendered for MySQL.
InitFk ==
    /\ stmt = new
    /\ call = Call("fk_drop", <<>>, NoObject, <<>>, "")
    /\ ret = Ret("ok")
    /\ hist = [columns_called |-> FALSE, json_called |-> FALSE, appends |-> 0]
    /\ fk \in {fk_table(fk_name(fk_drop, N), T) : N \in FkNames, T \in FkNames}

FkToString ==
    /\ call.op = "fk_drop"
    /\ call' = Call("fk_to_string", <<>>, NoObject, <<>>, "Mysql")
    /\ ret' = [status |-> "ok", sql |-> fk_drop_to_string(fk, "Mysql"), params |-> <<>>]
    /\ UNCHANGED <<stmt, hist, fk>>

NextFk == FkToString

SpecFk == InitFk /\ [][NextFk]_vars

\* ------------------------------------------------------------------ claims

Last(seq) == seq[Len(seq)]
Range(seq) == {seq[i] : i \in 1..Len(seq)}
AppendingOps == {"values", "values_panic", "json"}
BuildOps == {"build", "build_collect", "build_any", "build_collect_any"}

\* s sorts strictly before t: s is a proper prefix of t, or at the first
\* place where they differ s has the smaller byte.
LexLess(s, t) ==
    \E k \in 1..Len(t) :
        /\ k <= Len(s) + 1
        /\ \A i \in 1..(k - 1) : s[i] = t[i]
        /\ (k = Len(s) + 1 \/ Code(s[k]) < Code(t[k]))

RECURSIVE Flatten(_)
Flatten(rows) == IF rows = <<>> THEN <<>> ELSE Head(rows) \o Flatten(Tail(rows))

CountPlaceholders(sql) == Cardinality({i \in 1..Len(sql) : sql[i] \in {"?", "$"}})

\* C1: every row stored in the statement has as many values as the
\* statement has columns now.
ArityInvariant ==
    \A i \in 1..Len(stmt.values) : Len(stmt.values[i]) = Len(stmt.columns)

\* C2: values(row) returns the arity-mismatch error exactly when the row's
\* length differs from the column count, and then leaves the table, the
\* columns and the rows as they were; otherwise it succeeds and pushes the row.
ValuesErrIffMismatch ==
    [][call'.op = "values" =>
        /\ ret'.status \in {"ok", "err"}
        /\ (ret'.status = "err") <=> (Len(call'.row) # Len(stmt.columns))
        /\ ret'.status = "err" => stmt' = stmt
        /\ ret'.status = "ok" => stmt' = [stmt EXCEPT !.values = Append(@, call'.row)]]_vars

\* C2 witness: values returned the error on a statement that has a table,
\* columns and a row.
ValuesRejected ==
    /\ call.op = "values"
    /\ ret.status = "err"
    /\ stmt.table.some
    /\ stmt.columns # <<>>
    /\ stmt.values # <<>>

\* C3: on a statement on which columns was never called, the first json call
\* sets the column list to the keys of its object, and every later json call
\* leaves the column list as it is.
JsonColumnsDerivedOnce ==
    [][(call'.op = "json" /\ ret'.status = "ok" /\ ~hist.columns_called) =>
        IF hist.json_called
        THEN stmt'.columns = stmt.columns
        ELSE /\ Range(stmt'.columns) = Range(Keys(call'.object))
             /\ Len(stmt'.columns) = Len(call'.object.entries)]_vars

\* C4: json on a statement with no columns sets the column list to the
\* object's keys in ascending lexicographic order, and any object with the
\* same entries in another order gives the same columns and the same row.
JsonDerivationLexicographic ==
    [][(call'.op = "json" /\ ret'.status = "ok" /\ stmt.columns = <<>>) =>
        /\ Len(stmt'.columns) = Len(call'.object.entries)
        /\ Range(stmt'.columns) = Range(Keys(call'.object))
        /\ \A i \in 1..(Len(stmt'.columns) - 1) :
               LexLess(stmt'.columns[i], stmt'.columns[i + 1])
        /\ \A other \in Objects :
               Range(other.entries) = Range(call'.object.entries)
                   => json(stmt, other).stmt = stmt']_vars

\* C4 witness: the first call on a new statement was json with the keys b, ab
\* in that order, and the columns are ab, b.
JsonDerivedFromUnsortedKeys ==
    /\ call.op = "json"
    /\ ret.status = "ok"
    /\ ~hist.columns_called
    /\ Len(stmt.values) = 1
    /\ Keys(call.object) = << <<"b">>, <<"a", "b">> >>
    /\ stmt.columns = << <<"a", "b">>, <<"b">> >>

\* C5: the row json pushes has one value per column: the converted value of
\* the object's entry with the column's name, or Null when there is none.
JsonRowAligned ==
    [][(call'.op = "json" /\ ret'.status = "ok") =>
        LET cols == stmt'.columns
            row == Last(stmt'.values)
            es == call'.object.entries
        IN  /\ Len(stmt'.values) = Len(stmt.values) + 1
            /\ Len(row) = Len(cols)
            /\ \A i \in 1..Len(cols) :
                   IF \E j \in 1..Len(es) : es[j].key = cols[i]
                   THEN \E j \in 1..Len(es) :
                            /\ es[j].key = cols[i]
                            /\ row[i] = json_value_to_sea_value(es[j].value)
                   ELSE row[i] = Null]_vars

\* C5 witness: json was called on explicit columns with an object that lacks
\* one column, has a key that is no column, and whose first entry belongs to
\* the second column.
JsonRowMissingAndExtraKeys ==
    /\ call.op = "json"
    /\ ret.status = "ok"
    /\ hist.columns_called
    /\ Len(stmt.columns) = 2
    /\ Len(call.object.entries) = 2
    /\ call.object.entries[1].key = stmt.columns[2]
    /\ call.object.entries[2].key \notin Range(stmt.columns)
    /\ stmt.columns[1] \notin Range(Keys(call.object))
    /\ Last(stmt.values) = <<Null, BigInt(1)>>

\* C6: build returns a text with rows * columns placeholders and a parameter
\* list of that length that is the rows flattened in row-major order.
BuildPlaceholdersRowsTimesColumns ==
    call.op = "build" =>
        /\ CountPlaceholders(ret.sql) = Len(stmt.values) * Len(stmt.columns)
        /\ Len(ret.params) = Len(stmt.values) * Len(stmt.columns)
        /\ ret.params = Flatten(stmt.values)

\* C7: json with a value that is no object panics, and neither the rows nor
\* the columns (nor the table) have changed at that point.
JsonNonObjectPanics ==
    [][call'.op = "json" =>
        /\ (call'.object.kind # "Object") <=> (ret'.status = "panic")
        /\ ret'.status = "panic" => stmt' = stmt]_vars

\* C7 witness: json panicked on an array, on a statement with columns and a row.
JsonPanickedOnArray ==
    /\ call.op = "json"
    /\ ret.status = "panic"
    /\ call.object.kind = "Array"
    /\ stmt.columns # <<>>
    /\ stmt.values # <<>>

\* C8: values_panic panics exactly when values would return the error (the
\* lengths differ), and otherwise leaves the statement as values does: the
\* row pushed, the rest unchanged.
ValuesPanicIsValuesUnwrapped ==
    [][call'.op = "values_panic" =>
        LET r == values(stmt, call'.row)
        IN  /\ ret'.status \in {"ok", "panic"}
            /\ (ret'.status = "panic") <=> ~r.ok
            /\ (ret'.status = "panic") <=> (Len(call'.row) # Len(stmt.columns))
            /\ stmt' = r.stmt
            /\ ret'.status = "ok" =>
                   stmt' = [stmt EXCEPT !.values = Append(@, call'.row)]]_vars

\* C8 witness: values_panic panicked on a row that is shorter than the columns.
ValuesPanicAborted ==
    /\ call.op = "values_panic"
    /\ ret.status = "panic"
    /\ Len(call.row) < Len(stmt.columns)
    /\ stmt.values # <<>>

\* C9, as stated: the MySQL text of a foreign-key drop is ALTER TABLE, the
\* table between backticks, DROP FOREIGN KEY, the name between backticks, for
\* every table and name.
FkDropExactBackticks ==
    call.op = "fk_to_string" =>
        ret.sql = <<"ALTER TABLE ", BT>> \o fk.table.v
                      \o <<BT, " DROP FOREIGN KEY ", BT>> \o fk.name.v \o <<BT>>

\* C9, amended: the same, for a table and a name that hold no backtick.
FkDropExactBackticksPlainNames ==
    (call.op = "fk_to_string" /\ BT \notin Range(fk.table.v) /\ BT \notin Range(fk.name.v)) =>
        ret.sql = <<"ALTER TABLE ", BT>> \o fk.table.v
                      \o <<BT, " DROP FOREIGN KEY ", BT>> \o fk.name.v \o <<BT>>

\* C9 witness: a drop of the key kt on the table t was rendered.
FkDropRendered ==
    /\ call.op = "fk_to_string"
    /\ fk.table.v = <<"t">>
    /\ fk.name.v = <<"k", "t">>

\* C10: every successful values, values_panic or json call pushes one row at
\* the end and leaves the earlier rows as they were; every other call leaves
\* the rows alone; the number of rows is the number of successful such calls.
RowsAccumulateInCallOrder ==
    /\ [](hist.appends = Len(stmt.values))
    /\ [][IF call'.op \in AppendingOps /\ ret'.status = "ok"
          THEN /\ Len(stmt'.values) = Len(stmt.values) + 1
               /\ SubSeq(stmt'.values, 1, Len(stmt.values)) = stmt.values
               /\ call'.op # "json" => Last(stmt'.values) = call'.row
          ELSE stmt'.values = stmt.values]_vars

\* C10 witness: a json call pushed the second row of a statement, behind a
\* first row that differs from it, after two successful pushing calls.
SecondRowPushedByJson ==
    /\ call.op = "json"
    /\ ret.status = "ok"
    /\ hist.appends = 2
    /\ Len(stmt.values) = 2
    /\ stmt.values[1] = <<BigInt(1), Null>>
    /\ stmt.values[2] = <<Null, BigInt(1)>>

\* C11: on the same statement and for the same dialect, build, build_collect,
\* build_any and build_collect_any give the same text, and the parameters of
\* build and build_any are the values the collector of build_collect and
\* build_collect_any received, in the order it received them.
BuildAgreesWithBuildCollect ==
    [][(call.op \in BuildOps /\ call'.op \in BuildOps /\ call'.dialect = call.dialect) =>
        /\ stmt' = stmt
        /\ ret'.sql = ret.sql
        /\ ret'.params = ret.params]_vars

\* C11 witness: build returned, for PostgreSQL, four parameters that are not
\* the same read backwards, from two rows of two values.
BuildReturnedFourParameters ==
    /\ call.op = "build"
    /\ call.dialect = "Postgres"
    /\ Len(stmt.values) = 2
    /\ ret.params = <<BigInt(1), BigInt(1), Null, BigInt(1)>>
    /\ CountPlaceholders(ret.sql) = 4

====
